---- MODULE Spec2Model ----
(***************************************************************************)
(* CoinOp background service worker: the session vault (sessionMnemonic,   *)
(* walletInstance), the persisted records (encrypted_wallet, network) and  *)
(* the message router.  Every request is an async computation that runs    *)
(* from one await to the next without preemption; each request in flight   *)
(* is held with its position and its local variables.                      *)
(* Requests in flight carry no identity of their own, so they are kept as  *)
(* a bag.                                                                  *)
(***************************************************************************)
EXTENDS Naturals, Sequences, FiniteSets, Bags, TLC

VARIABLES
    sessionMnemonic,  \* background/index.ts:17, 0 is null, n > 0 is the n-th seed
    walletInstance,   \* background/index.ts:23, NullWallet or a handle
    storage,          \* chrome.storage.local: encrypted_wallet and network
    requests,         \* the requests in flight: one async IIFE of the listener each
    dispatched,       \* number of messages delivered to the listener so far
    entropy,          \* number of random draws made (seeds, salts, ivs)
    serial,           \* ghost: no message was delivered while another was in flight
    hist,             \* ghost: the answered requests that are Recorded, while serial
    responded,        \* ghost: number of sendResponse calls made so far
    unhandled,        \* ghost: number of IIFE promises that rejected
    codec,            \* the test of lib/crypto in progress, if any
    popup             \* the popup: App's view and its sendMessage call, if any

vars == <<sessionMnemonic, walletInstance, storage, requests, dispatched, entropy, serial, hist, responded, unhandled, codec, popup>>

\* ------------------------------------------------------------------ bounds
MaxInFlight == 2
MaxRequests == 4

Passwords == {"pw1", "pw2"}
Networks == {"signet", "mainnet"}
Amounts == {1000}

\* ------------------------------------------------------------ vault codec
\* PBKDF2 is a function of (password, salt) and nothing else.
deriveKey(password, salt) == <<password, salt>>

\* AES-GCM as a symbolic AEAD: the ciphertext is opened by the key and iv
\* that sealed it and by no other.
AesGcmEncrypt(key, iv, plaintext) == [key |-> key, iv |-> iv, pt |-> plaintext]

AesGcmDecrypt(key, iv, ct) ==
    IF ct.key = key /\ ct.iv = iv
    THEN [ok |-> TRUE, plaintext |-> ct.pt]
    ELSE [ok |-> FALSE, plaintext |-> 0]

\* base64 of a byte array, and back: a tagged copy of the bytes.
uint8ArrayToBase64(bytes) == <<"b64", bytes>>
base64ToUint8Array(base64) == base64[2]

\* JSON.stringify of a value, and JSON.parse of a text: only a text that
\* JSON.stringify made parses, to the value it was made of.
JSONstringify(value) == [json |-> value]
JSONparse(text) ==
    IF "json" \in DOMAIN text
    THEN [ok |-> TRUE, value |-> text.json]
    ELSE [ok |-> FALSE, value |-> [none |-> TRUE]]

\* An encryption that stores the iv where the salt belongs.
encryptData_storesIvAsSalt(data, password, salt, iv) ==
    JSONstringify(
        [cipherText |-> uint8ArrayToBase64(AesGcmEncrypt(deriveKey(password, salt), iv, data)),
         salt |-> uint8ArrayToBase64(iv),
         iv |-> uint8ArrayToBase64(iv)])

\* An encryption under a constant iv.
encryptData_fixedIv(data, password, salt, iv) ==
    JSONstringify(
        [cipherText |-> uint8ArrayToBase64(AesGcmEncrypt(deriveKey(password, salt), 0, data)),
         salt |-> uint8ArrayToBase64(salt),
         iv |-> uint8ArrayToBase64(0)])

\* encryptData with the salt and iv it drew.
encryptData(data, password, salt, iv) ==
    JSONstringify(
        [cipherText |-> uint8ArrayToBase64(AesGcmEncrypt(deriveKey(password, salt), iv, data)),
         salt |-> uint8ArrayToBase64(salt),
         iv |-> uint8ArrayToBase64(iv)])

\* What decryptData ends in: the plaintext it resolves to, or the message of
\* the error it rejects with; `derived` tells whether deriveKey was reached.
Decrypted(plaintext) ==
    [ok |-> TRUE, plaintext |-> plaintext, error |-> "", derived |-> TRUE]
DecryptThrows(message, derived) ==
    [ok |-> FALSE, plaintext |-> 0, error |-> message, derived |-> derived]

InvalidFormat == "Invalid encrypted data format"
DecryptionFailed == "Decryption failed: incorrect password or corrupted data"
\* atob(undefined): the DOMException of a string that is no base64.
InvalidCharacter == "The string to be decoded is not correctly encoded."

\* Bytes that no key opens.
Garbage == [key |-> <<"", 0>>, iv |-> 0, pt |-> 0]

\* decryptData without the authentication of the ciphertext.
decryptData_noAuth(encryptedJson, password) ==
    Decrypted(base64ToUint8Array(JSONparse(encryptedJson).value.cipherText).pt)

\* A catch block that tells a wrong key from damaged bytes.
decryptData_catch_tellsApart(ciphertextArray) ==
    IF ciphertextArray = Garbage THEN "Corrupted data" ELSE "Incorrect password"

\* The catch block around crypto.subtle.decrypt: one message, whatever made
\* the decryption fail.
decryptData_catch(ciphertextArray) == DecryptionFailed

\* decryptData: JSON.parse in its try block, the three base64 decodings
\* (a field that is missing decodes atob(undefined), which throws), the key
\* derivation, and crypto.subtle.decrypt in its try block.
decryptData(encryptedJson, password) ==
    LET parsed == JSONparse(encryptedJson)
        encryptedData == parsed.value
        ciphertextArray == base64ToUint8Array(encryptedData.cipherText)
        salt == base64ToUint8Array(encryptedData.salt)
        iv == base64ToUint8Array(encryptedData.iv)
        res == AesGcmDecrypt(deriveKey(password, salt), iv, ciphertextArray)
    IN  IF ~parsed.ok
        THEN DecryptThrows(InvalidFormat, FALSE)
        ELSE IF ~({"cipherText", "salt", "iv"} \subseteq DOMAIN encryptedData)
        THEN DecryptThrows(InvalidCharacter, FALSE)
        ELSE IF res.ok
        THEN Decrypted(res.plaintext)
        ELSE DecryptThrows(decryptData_catch(ciphertextArray), TRUE)

\* -------------------------------------------------------------- responses
Ok(data) == [success |-> TRUE, data |-> data]
Err(message) == [success |-> FALSE, error |-> message]
NoResponse == [pending |-> TRUE]

\* A thrown value, and `error instanceof Error ? error.message : fallback`.
StorageFault == [isError |-> TRUE, message |-> "StorageError"]
SdkFault == [isError |-> TRUE, message |-> "SDK failure"]
\* The SDK's fetch failed, and a rejection with a value that is no Error.
FetchFault == [isError |-> TRUE, message |-> "Failed to fetch"]
NonError == [isError |-> FALSE, message |-> ""]
SdkFaults == {SdkFault, FetchFault, NonError}
\* generateMnemonic threw, crypto.subtle rejected inside encryptData, and a
\* property read on undefined.
EntropyFault == [isError |-> TRUE, message |-> "Entropy failure"]
CodecFault == [isError |-> TRUE, message |-> "Encryption failure"]
TypeError == [isError |-> TRUE, message |-> "Cannot read properties of undefined"]
ErrorMessage(error, fallback) == IF error.isError THEN error.message ELSE fallback

\* ------------------------------------------------------------------ state
NoBlob == [absent |-> TRUE]
NullWallet == [mnemonic |-> 0, network |-> "null"]

\* The handle Wallet.create returns: bound to the identity derived from the
\* mnemonic and to the network.
WalletCreate(mnemonic, network) == [mnemonic |-> mnemonic, network |-> network]

\* A message is null or carries a type and a payload; a payload is undefined
\* or carries the fields the handler of the type reads.
Null == [null |-> TRUE]
Undefined == [undefined |-> TRUE]

\* A request: its position, the message (type and payload; password, network
\* and amount are the payload's fields as read), the handler's locals, the response,
\* and two ghosts: the collaborator calls made so far with their outcomes,
\* and (in a serial run) the state the message was delivered in.
NoPre == [sessionMnemonic |-> 0, walletInstance |-> NullWallet, encrypted_wallet |-> NoBlob]
NoRequest ==
    [pc |-> "free", type |-> "", payload |-> Undefined,
     password |-> "", network |-> "", amount |-> 0,
     encrypted |-> NoBlob, mnemonic |-> 0, response |-> NoResponse,
     called |-> {}, pre |-> NoPre]

MutatingTypes == {"GenerateWallet", "UnlockWallet", "LockWallet", "SetNetwork"}
ReadTypes == {"GetWalletStatus", "GetBalance", "GetNetwork"}

Messages ==
    {[type |-> "GenerateWallet", payload |-> [password |-> p]] : p \in Passwords}
    \cup {[type |-> "UnlockWallet", payload |-> [password |-> p]] : p \in Passwords}
    \cup {[type |-> "SetNetwork", payload |-> [network |-> n]] : n \in Networks}
    \cup {[type |-> "Onboard", payload |-> [amount |-> a]] : a \in Amounts}
    \cup {[type |-> t, payload |-> Undefined] :
            t \in {"GetWalletStatus", "LockWallet", "GetBalance", "GetNetwork",
                   "GetAddresses"}}

\* What else can reach the listener: null, a value without a type property
\* (a primitive, an object without tag), an unknown tag, and a known tag
\* without its payload.
Malformed ==
    {Null}
    \cup {[type |-> t, payload |-> Undefined] : t \in {"undefined", "Bogus"}}
    \cup {[type |-> t, payload |-> Undefined] :
            t \in {"GenerateWallet", "UnlockWallet", "SetNetwork", "Onboard"}}

\* No test of lib/crypto is in progress.
NoTest ==
    [pc |-> "idle", plaintext |-> "", password |-> "",
     encrypted1 |-> NoBlob, encrypted2 |-> NoBlob,
     input |-> NoBlob, tried |-> "", decrypted |-> DecryptThrows("", FALSE)]

\* A promise sendMessage returned: pending, or settled with a value.
\* `settles` counts the calls of resolve and reject made on it.
Pending == [state |-> "pending", value |-> Undefined, settles |-> 0]

\* The popup as it opens: App renders 'loading' and its effect has yet to run.
PopupOpened == [view |-> "loading", pc |-> "mount", msg |-> Null, promise |-> Pending]

Init ==
    /\ sessionMnemonic = 0
    /\ walletInstance = NullWallet
    /\ storage = [encrypted_wallet |-> NoBlob, network |-> "absent"]
    /\ requests = EmptyBag
    /\ dispatched = 0
    /\ entropy = 0
    /\ serial = TRUE
    /\ hist = <<>>
    /\ responded = 0
    /\ unhandled = 0
    /\ codec = NoTest
    /\ popup = PopupOpened

\* ---------------------------------------------------------- store adapter
hasWallet == storage.encrypted_wallet /= NoBlob
loadEncryptedWallet == storage.encrypted_wallet
loadNetwork == IF storage.network \in Networks THEN storage.network ELSE "signet"
saveEncryptedWallet(encryptedData) == [storage EXCEPT !.encrypted_wallet = encryptedData]
saveNetwork(network) == [storage EXCEPT !.network = network]

\* --------------------------------------------------------------- helpers
InFlight == BagToSet(requests)

\* No request has returned without its response being sent.  A handler
\* resumes, and a message is delivered, in a task of its own: the microtasks
\* of the task before it, the pending sendResponse among them, have run.
Quiet == \A q \in InFlight : q.pc /= "ret"

\* Request s moves on to t.
Step(s, t) == requests' = (requests (-) SetToBag({s})) (+) SetToBag({t})

\* Request s returns `response` to the IIFE, which has yet to call sendResponse.
Return(s, response) ==
    Step(s, [s EXCEPT !.pc = "ret", !.response = response])

\* The same after a collaborator call that ended as `outcome`.
ReturnAfter(s, outcome, response) ==
    Step(s, [s EXCEPT !.pc = "ret", !.response = response, !.called = @ \cup {outcome}])

Pre == [sessionMnemonic |-> sessionMnemonic, walletInstance |-> walletInstance,
        encrypted_wallet |-> storage.encrypted_wallet]

\* A request as the listener starts it.
NewRequest(pc, type) ==
    [NoRequest EXCEPT !.pc = pc, !.type = type,
                      !.pre = IF serial /\ InFlight = {} THEN Pre ELSE NoPre]

Start(t) == requests' = requests (+) SetToBag({t})

\* ------------------------------------------------------------------ initSdk
\* What initSdk leaves in walletInstance when Wallet.create resolved, and
\* when anything in its try block threw (catch: walletInstance = null).
initSdk_resolved(mnemonic, network) == WalletCreate(mnemonic, network)
\* A catch block that leaves the previous handle in place.
initSdk_rejected_keeps == walletInstance
initSdk_rejected == NullWallet

\* ---------------------------------------------------- handleGenerateWallet
\* Up to the first await: generateMnemonic(), then encryptData draws salt and
\* iv and suspends on the key derivation.  The three draws fix the blob that
\* encryptData resolves to; the request holds it from here on.
\* generateMnemonic may throw, and reading the password of an undefined
\* payload does: both land in the catch block before any await.
handleGenerateWallet(payload) ==
    /\ \/ /\ payload /= Undefined
          /\ Start([NewRequest("gen_encrypt", "GenerateWallet") EXCEPT
                      !.payload = payload,
                      !.password = payload.password,
                      !.mnemonic = entropy + 1,
                      !.encrypted = encryptData(entropy + 1, payload.password,
                                                entropy + 2, entropy + 3)])
          /\ entropy' = entropy + 3
       \/ /\ payload = Undefined
          /\ Start([NewRequest("ret", "GenerateWallet") EXCEPT
                      !.mnemonic = entropy + 1,
                      !.response = Err(ErrorMessage(TypeError, "Failed to generate wallet"))])
          /\ entropy' = entropy + 1
       \/ /\ Start([NewRequest("ret", "GenerateWallet") EXCEPT
                      !.called = {"generateMnemonic:rejected"},
                      !.response = Err(ErrorMessage(EntropyFault, "Failed to generate wallet"))])
          /\ entropy' = entropy
    /\ UNCHANGED <<sessionMnemonic, walletInstance, storage>>

\* encryptData resolved (saveEncryptedWallet is called) or rejected.
handleGenerateWallet_encrypted(s) ==
    /\ s.pc = "gen_encrypt"
    /\ Quiet
    /\ \/ Step(s, [s EXCEPT !.pc = "gen_save"])
       \/ ReturnAfter(s, "encryptData:rejected",
                      Err(ErrorMessage(CodecFault, "Failed to generate wallet")))
    /\ UNCHANGED <<sessionMnemonic, walletInstance, storage, dispatched, entropy, serial, hist, responded, unhandled, codec, popup>>

\* A generation that hands the new seed to the caller.
handleGenerateWallet_saved_returnsSeed(s) ==
    /\ s.pc = "gen_save"
    /\ Quiet
    /\ \/ /\ storage' = saveEncryptedWallet(s.encrypted)
          /\ Return(s, Ok([success |-> TRUE, mnemonic |-> s.mnemonic]))
       \/ /\ storage' = storage
          /\ ReturnAfter(s, "storage:rejected",
                         Err(ErrorMessage(StorageFault, "Failed to generate wallet")))
    /\ UNCHANGED <<sessionMnemonic, walletInstance, dispatched, entropy, serial, hist, responded, unhandled, codec, popup>>

\* saveEncryptedWallet resolved (the record is written) or rejected.
handleGenerateWallet_saved(s) ==
    /\ s.pc = "gen_save"
    /\ Quiet
    /\ \/ /\ storage' = saveEncryptedWallet(s.encrypted)
          /\ Return(s, Ok([success |-> TRUE]))
       \/ /\ storage' = storage
          /\ ReturnAfter(s, "storage:rejected",
                         Err(ErrorMessage(StorageFault, "Failed to generate wallet")))
    /\ UNCHANGED <<sessionMnemonic, walletInstance, dispatched, entropy, serial, hist, responded, unhandled, codec, popup>>

\* --------------------------------------------------- handleGetWalletStatus
handleGetWalletStatus ==
    /\ Start(NewRequest("st_has", "GetWalletStatus"))
    /\ UNCHANGED <<sessionMnemonic, walletInstance, storage, entropy>>

\* A status that reads the handle instead of the secret.
handleGetWalletStatus_data_byHandle ==
    [initialized |-> hasWallet, locked |-> walletInstance = NullWallet]

\* The data of the status response, once hasWallet() resolved.
handleGetWalletStatus_data == [initialized |-> hasWallet, locked |-> sessionMnemonic = 0]

\* A status that drops a handle it finds without a secret.
handleGetWalletStatus_read_repairs(s) ==
    /\ s.pc = "st_has"
    /\ Quiet
    /\ \/ Return(s, Ok(handleGetWalletStatus_data))
       \/ ReturnAfter(s, "storage:rejected",
                      Err(ErrorMessage(StorageFault, "Failed to get wallet status")))
    /\ walletInstance' = IF sessionMnemonic = 0 THEN NullWallet ELSE walletInstance
    /\ UNCHANGED <<sessionMnemonic, storage, dispatched, entropy, serial, hist, responded, unhandled, codec, popup>>

handleGetWalletStatus_read(s) ==
    /\ s.pc = "st_has"
    /\ Quiet
    /\ \/ Return(s, Ok(handleGetWalletStatus_data))
       \/ ReturnAfter(s, "storage:rejected",
                      Err(ErrorMessage(StorageFault, "Failed to get wallet status")))
    /\ UNCHANGED <<sessionMnemonic, walletInstance, storage, dispatched, entropy, serial, hist, responded, unhandled, codec, popup>>

\* ------------------------------------------------------ handleUnlockWallet
handleUnlockWallet(payload) ==
    /\ Start([NewRequest("unl_load", "UnlockWallet") EXCEPT
                !.payload = payload,
                !.password = IF payload = Undefined THEN "" ELSE payload.password])
    /\ UNCHANGED <<sessionMnemonic, walletInstance, storage, entropy>>

\* Without the guard the absent blob reaches decryptData, which throws into
\* the inner catch.
handleUnlockWallet_absent_unguarded == Err("Incorrect password")

\* The response when loadEncryptedWallet returned nothing.
handleUnlockWallet_absent == Err("No wallet found")

\* loadEncryptedWallet resolved or rejected; decryptData is called on a blob,
\* unless reading the password of an undefined payload throws into the inner
\* catch.
handleUnlockWallet_loaded(s) ==
    /\ s.pc = "unl_load"
    /\ Quiet
    /\ \/ /\ loadEncryptedWallet = NoBlob
          /\ Return(s, handleUnlockWallet_absent)
       \/ /\ loadEncryptedWallet /= NoBlob
          /\ s.payload = Undefined
          /\ Step(s, [s EXCEPT !.pc = "ret", !.encrypted = loadEncryptedWallet,
                               !.response = Err("Incorrect password")])
       \/ /\ loadEncryptedWallet /= NoBlob
          /\ s.payload /= Undefined
          /\ Step(s, [s EXCEPT !.pc = "unl_decrypt",
                               !.encrypted = loadEncryptedWallet,
                               !.called = @ \cup {"decryptData"}])
       \/ ReturnAfter(s, "storage:rejected",
                      Err(ErrorMessage(StorageFault, "Failed to unlock wallet")))
    /\ UNCHANGED <<sessionMnemonic, walletInstance, storage, dispatched, entropy, serial, hist, responded, unhandled, codec, popup>>

\* An unlock that takes whatever the blob holds, whether or not the
\* password opens it.
handleUnlockWallet_decrypted_anyPassword(s) ==
    /\ s.pc = "unl_decrypt"
    /\ Quiet
    /\ sessionMnemonic' = base64ToUint8Array(JSONparse(s.encrypted).value.cipherText).pt
    /\ Step(s, [s EXCEPT !.pc = "unl_loadnet", !.mnemonic = base64ToUint8Array(JSONparse(s.encrypted).value.cipherText).pt])
    /\ UNCHANGED <<walletInstance, storage, dispatched, entropy, serial, hist, responded, unhandled, codec, popup>>

\* decryptData resolved (the secret is stored, loadNetwork is called) or
\* rejected (inner catch).
handleUnlockWallet_decrypted(s) ==
    /\ s.pc = "unl_decrypt"
    /\ Quiet
    /\ LET res == decryptData(s.encrypted, s.password)
       IN  IF res.ok
           THEN /\ sessionMnemonic' = res.plaintext
                /\ Step(s, [s EXCEPT !.pc = "unl_loadnet", !.mnemonic = res.plaintext])
           ELSE /\ sessionMnemonic' = sessionMnemonic
                /\ ReturnAfter(s, "decryptData:rejected", Err("Incorrect password"))
    /\ UNCHANGED <<walletInstance, storage, dispatched, entropy, serial, hist, responded, unhandled, codec, popup>>

\* loadNetwork resolved (initSdk is called) or rejected (inner catch).
handleUnlockWallet_networkLoaded(s) ==
    /\ s.pc = "unl_loadnet"
    /\ Quiet
    /\ \/ Step(s, [s EXCEPT !.pc = "unl_sdk", !.network = loadNetwork,
                            !.called = @ \cup {"initSdk"}])
       \/ ReturnAfter(s, "storage:rejected", Err("Incorrect password"))
    /\ UNCHANGED <<sessionMnemonic, walletInstance, storage, dispatched, entropy, serial, hist, responded, unhandled, codec, popup>>

\* An unlock that gives the secret up when initSdk rejected.
handleUnlockWallet_sdkDone_relocks(s) ==
    /\ s.pc = "unl_sdk"
    /\ Quiet
    /\ \/ /\ walletInstance' = initSdk_resolved(s.mnemonic, s.network)
          /\ sessionMnemonic' = sessionMnemonic
          /\ ReturnAfter(s, "initSdk:resolved", Ok([success |-> TRUE]))
       \/ /\ walletInstance' = initSdk_rejected
          /\ sessionMnemonic' = 0
          /\ ReturnAfter(s, "initSdk:rejected", Ok([success |-> TRUE]))
    /\ UNCHANGED <<storage, dispatched, entropy, serial, hist, responded, unhandled, codec, popup>>

\* initSdk resolved or rejected; the unlock answers success either way.
handleUnlockWallet_sdkDone(s) ==
    /\ s.pc = "unl_sdk"
    /\ Quiet
    /\ \/ /\ walletInstance' = initSdk_resolved(s.mnemonic, s.network)
          /\ ReturnAfter(s, "initSdk:resolved", Ok([success |-> TRUE]))
       \/ /\ walletInstance' = initSdk_rejected
          /\ ReturnAfter(s, "initSdk:rejected", Ok([success |-> TRUE]))
    /\ UNCHANGED <<sessionMnemonic, storage, dispatched, entropy, serial, hist, responded, unhandled, codec, popup>>

\* -------------------------------------------------------- handleLockWallet
\* A lock that forgets the handle.
handleLockWallet_keepsHandle ==
    /\ sessionMnemonic' = 0
    /\ walletInstance' = walletInstance
    /\ Start([NewRequest("ret", "LockWallet") EXCEPT !.response = Ok([success |-> TRUE])])
    /\ UNCHANGED <<storage, entropy>>

handleLockWallet ==
    /\ sessionMnemonic' = 0
    /\ walletInstance' = NullWallet
    /\ Start([NewRequest("ret", "LockWallet") EXCEPT !.response = Ok([success |-> TRUE])])
    /\ UNCHANGED <<storage, entropy>>

\* -------------------------------------------------------- handleGetBalance
handleGetBalance ==
    /\ IF walletInstance = NullWallet
       THEN Start([NewRequest("ret", "GetBalance") EXCEPT
                     !.response = Err("Wallet not initialized")])
       ELSE Start([NewRequest("bal_get", "GetBalance") EXCEPT !.called = {"getBalance"}])
    /\ UNCHANGED <<sessionMnemonic, walletInstance, storage, entropy>>

\* error.message.includes('network' | 'fetch' | 'connection' | 'Failed to fetch')
MentionsConnection(message) == message \in {"Failed to fetch"}

\* A catch block that answers with zeroes next to the error.
handleGetBalance_catch_zeroes(error) ==
    [success |-> FALSE, error |-> ErrorMessage(error, "Failed to get balance"),
     data |-> [onchain |-> 0, offchain |-> 0]]

\* The catch block of handleGetBalance.
handleGetBalance_catch(error) ==
    IF error.isError /\ MentionsConnection(error.message)
    THEN Err("Unable to connect to Ark Service Provider. Please check your connection.")
    ELSE Err(ErrorMessage(error, "Failed to get balance"))

\* Ghost: what the two queries behind getBalance() did.
BalanceQueries(on, onOk, offOk) ==
    (IF onOk /\ on = 1000 THEN {"onchain:1000"} ELSE {})
    \cup (IF onOk THEN {} ELSE {"onchain:rejected"})
    \cup (IF offOk THEN {} ELSE {"offchain:rejected"})

\* walletInstance.getBalance() resolved or rejected.  The one promise covers
\* the on-chain and the off-chain query: it resolves with both totals when
\* both succeeded and rejects when either failed.
handleGetBalance_done(s) ==
    /\ s.pc = "bal_get"
    /\ Quiet
    /\ \/ \E on \in {0, 1000}, off \in {0, 500} :
              Return(s, Ok([onchain |-> on, offchain |-> off]))
       \/ \E on \in {0, 1000}, onOk \in BOOLEAN, offOk \in BOOLEAN, error \in SdkFaults :
              /\ ~(onOk /\ offOk)
              /\ Step(s, [s EXCEPT !.pc = "ret",
                                   !.response = handleGetBalance_catch(error),
                                   !.called = @ \cup {"getBalance:rejected"}
                                                \cup BalanceQueries(on, onOk, offOk)])
    /\ UNCHANGED <<sessionMnemonic, walletInstance, storage, dispatched, entropy, serial, hist, responded, unhandled, codec, popup>>

\* ------------------------------------------------------ handleGetAddresses
\* Without the check of the handle the getter is read off null and the
\* TypeError lands in the outer catch.
handleGetAddresses_unchecked ==
    /\ Start([NewRequest("ret", "GetAddresses") EXCEPT
                !.response = IF walletInstance = NullWallet
                             THEN Err(ErrorMessage(TypeError, "Failed to get addresses"))
                             ELSE Ok([onchain |-> "onchain-address",
                                      offchain |-> "offchain-address"])])
    /\ UNCHANGED <<sessionMnemonic, walletInstance, storage, entropy>>

\* Both getters read in one try block: the first that throws leaves the
\* second unread.
handleGetAddresses_chained ==
    /\ IF walletInstance = NullWallet
       THEN Start([NewRequest("ret", "GetAddresses") EXCEPT
                     !.response = Err("Wallet not initialized")])
       ELSE \E onOk \in BOOLEAN, offOk \in BOOLEAN :
              Start([NewRequest("ret", "GetAddresses") EXCEPT
                       !.called = {"onchainAddress", "offchainAddress"}
                                  \cup (IF onOk THEN {} ELSE {"onchainAddress:rejected"})
                                  \cup (IF offOk THEN {} ELSE {"offchainAddress:rejected"}),
                       !.response = Ok([onchain |-> IF onOk THEN "onchain-address" ELSE "",
                                        offchain |-> IF onOk /\ offOk
                                                     THEN "offchain-address" ELSE ""])])
    /\ UNCHANGED <<sessionMnemonic, walletInstance, storage, entropy>>

\* No await: both getters are read, each in a try block of its own, and a
\* getter that throws (or an absent off-chain address) leaves "".
handleGetAddresses ==
    /\ IF walletInstance = NullWallet
       THEN Start([NewRequest("ret", "GetAddresses") EXCEPT
                     !.response = Err("Wallet not initialized")])
       ELSE \E onOk \in BOOLEAN, offOk \in BOOLEAN :
              Start([NewRequest("ret", "GetAddresses") EXCEPT
                       !.called = {"onchainAddress", "offchainAddress"}
                                  \cup (IF onOk THEN {} ELSE {"onchainAddress:rejected"})
                                  \cup (IF offOk THEN {} ELSE {"offchainAddress:rejected"}),
                       !.response = Ok([onchain |-> IF onOk THEN "onchain-address" ELSE "",
                                        offchain |-> IF offOk THEN "offchain-address" ELSE ""])])
    /\ UNCHANGED <<sessionMnemonic, walletInstance, storage, entropy>>

\* ----------------------------------------------------------- handleOnboard
\* A retry block that sends again without looking at the handle.
handleOnboard_retry_unchecked(s) ==
    {[s EXCEPT !.pc = "ret", !.response = Err("Boarding address not available")],
     [s EXCEPT !.pc = "ret",
               !.called = @ \cup {"boardingOnchainAddress:rejected"},
               !.response = Err(ErrorMessage(SdkFault, "Failed to onboard funds"))]}
    \cup (IF s.payload = Undefined
          THEN {[s EXCEPT !.pc = "ret",
                          !.response = Err(ErrorMessage(TypeError, "Failed to onboard funds"))]}
          ELSE {[s EXCEPT !.pc = "ob_retry", !.called = @ \cup {"sendBitcoin:retry"}]})

\* The retry block after a first attempt that threw an Error, run by request
\* s: the requests it can leave.  It checks the handle again, reads the
\* boarding address again (present, absent, or the getter throws) and calls
\* sendBitcoin with the amount as a number.
handleOnboard_retry(s) ==
    IF walletInstance = NullWallet
    THEN {[s EXCEPT !.pc = "ret", !.response = Err("Wallet not initialized")]}
    ELSE {[s EXCEPT !.pc = "ret", !.response = Err("Boarding address not available")],
          [s EXCEPT !.pc = "ret",
                    !.called = @ \cup {"boardingOnchainAddress:rejected"},
                    !.response = Err(ErrorMessage(SdkFault, "Failed to onboard funds"))]}
         \cup (IF s.payload = Undefined
               THEN {[s EXCEPT !.pc = "ret",
                               !.response = Err(ErrorMessage(TypeError, "Failed to onboard funds"))]}
               ELSE {[s EXCEPT !.pc = "ob_retry", !.called = @ \cup {"sendBitcoin:retry"}]})

\* Up to the first await: the handle check, the boarding address, BigInt of
\* the amount, sendBitcoin.  A throw before the call enters the retry block
\* in the same run.
handleOnboard(payload) ==
    /\ IF walletInstance = NullWallet
       THEN Start([NewRequest("ret", "Onboard") EXCEPT
                     !.response = Err("Wallet not initialized")])
       ELSE LET s == [NewRequest("ob_send", "Onboard") EXCEPT
                        !.payload = payload,
                        !.amount = IF payload = Undefined THEN 0 ELSE payload.amount]
            IN  \/ /\ payload /= Undefined
                   /\ Start([s EXCEPT !.called = {"sendBitcoin"}])
                \/ Start([s EXCEPT !.pc = "ret",
                                   !.response = Err("Boarding address not available")])
                \/ \E t \in handleOnboard_retry(
                              [s EXCEPT !.called = {"boardingOnchainAddress:rejected"}]) :
                       Start(t)
                \/ /\ payload = Undefined
                   /\ \E t \in handleOnboard_retry(s) : Start(t)
    /\ UNCHANGED <<sessionMnemonic, walletInstance, storage, entropy>>

\* The first sendBitcoin resolved, or rejected: with an Error (the retry
\* block runs) or with another value.
handleOnboard_sent(s) ==
    /\ s.pc = "ob_send"
    /\ Quiet
    /\ \/ ReturnAfter(s, "sendBitcoin:resolved", Ok([success |-> TRUE, txid |-> "txid"]))
       \/ ReturnAfter(s, "sendBitcoin:rejected", Err("Failed to onboard funds"))
       \/ \E t \in handleOnboard_retry([s EXCEPT !.called = @ \cup {"sendBitcoin:rejected"}]) :
              Step(s, t)
    /\ UNCHANGED <<sessionMnemonic, walletInstance, storage, dispatched, entropy, serial, hist, responded, unhandled, codec, popup>>

\* The second sendBitcoin resolved or rejected.
handleOnboard_retried(s) ==
    /\ s.pc = "ob_retry"
    /\ Quiet
    /\ \/ ReturnAfter(s, "sendBitcoin:retry:resolved", Ok([success |-> TRUE, txid |-> "txid"]))
       \/ \E error \in {SdkFault, NonError} :
              ReturnAfter(s, "sendBitcoin:retry:rejected",
                          Err(ErrorMessage(error, "Failed to onboard funds")))
    /\ UNCHANGED <<sessionMnemonic, walletInstance, storage, dispatched, entropy, serial, hist, responded, unhandled, codec, popup>>

\* -------------------------------------------------------- handleGetNetwork
handleGetNetwork ==
    /\ Start(NewRequest("gn_load", "GetNetwork"))
    /\ UNCHANGED <<sessionMnemonic, walletInstance, storage, entropy>>

\* A handler without its try/catch: the rejection of loadNetwork rejects the
\* promise of the IIFE and sendResponse is not reached.
handleGetNetwork_loaded_uncaught(s) ==
    /\ s.pc = "gn_load"
    /\ Quiet
    /\ \/ /\ Return(s, Ok([network |-> loadNetwork]))
          /\ unhandled' = unhandled
       \/ /\ requests' = requests (-) SetToBag({s})
          /\ unhandled' = unhandled + 1
    /\ UNCHANGED <<sessionMnemonic, walletInstance, storage, dispatched, entropy, serial, hist, responded, codec, popup>>

handleGetNetwork_loaded(s) ==
    /\ s.pc = "gn_load"
    /\ Quiet
    /\ \/ Return(s, Ok([network |-> loadNetwork]))
       \/ ReturnAfter(s, "storage:rejected",
                      Err(ErrorMessage(StorageFault, "Failed to get network")))
    /\ UNCHANGED <<sessionMnemonic, walletInstance, storage, dispatched, entropy, serial, hist, responded, unhandled, codec, popup>>

\* -------------------------------------------------------- handleSetNetwork
\* Reading the network of an undefined payload throws before saveNetwork
\* is called.
handleSetNetwork(payload) ==
    /\ IF payload = Undefined
       THEN Start([NewRequest("ret", "SetNetwork") EXCEPT
                     !.response = Err(ErrorMessage(TypeError, "Failed to set network"))])
       ELSE Start([NewRequest("sn_save", "SetNetwork") EXCEPT
                     !.payload = payload, !.network = payload.network])
    /\ UNCHANGED <<sessionMnemonic, walletInstance, storage, entropy>>

\* A network change that rebuilds the handle only where one exists.
handleSetNetwork_saved_byHandle(s) ==
    /\ s.pc = "sn_save"
    /\ Quiet
    /\ \/ /\ storage' = saveNetwork(s.network)
          /\ IF walletInstance /= NullWallet
             THEN Step(s, [s EXCEPT !.pc = "sn_sdk", !.mnemonic = sessionMnemonic,
                                    !.called = @ \cup {"initSdk"}])
             ELSE Return(s, Ok([success |-> TRUE]))
       \/ /\ storage' = storage
          /\ ReturnAfter(s, "storage:rejected",
                         Err(ErrorMessage(StorageFault, "Failed to set network")))
    /\ UNCHANGED <<sessionMnemonic, walletInstance, dispatched, entropy, serial, hist, responded, unhandled, codec, popup>>

\* A network change whose rejected write reached the store all the same.
handleSetNetwork_saved_writesOnFault(s) ==
    /\ s.pc = "sn_save"
    /\ Quiet
    /\ storage' = saveNetwork(s.network)
    /\ \/ IF sessionMnemonic /= 0
          THEN Step(s, [s EXCEPT !.pc = "sn_sdk", !.mnemonic = sessionMnemonic,
                                 !.called = @ \cup {"initSdk"}])
          ELSE Return(s, Ok([success |-> TRUE]))
       \/ ReturnAfter(s, "storage:rejected",
                      Err(ErrorMessage(StorageFault, "Failed to set network")))
    /\ UNCHANGED <<sessionMnemonic, walletInstance, dispatched, entropy, serial, hist, responded, unhandled, codec, popup>>

\* saveNetwork resolved (then initSdk is called if the session holds a
\* secret) or rejected.
handleSetNetwork_saved(s) ==
    /\ s.pc = "sn_save"
    /\ Quiet
    /\ \/ /\ storage' = saveNetwork(s.network)
          /\ IF sessionMnemonic /= 0
             THEN Step(s, [s EXCEPT !.pc = "sn_sdk", !.mnemonic = sessionMnemonic,
                                    !.called = @ \cup {"initSdk"}])
             ELSE Return(s, Ok([success |-> TRUE]))
       \/ /\ storage' = storage
          /\ ReturnAfter(s, "storage:rejected",
                         Err(ErrorMessage(StorageFault, "Failed to set network")))
    /\ UNCHANGED <<sessionMnemonic, walletInstance, dispatched, entropy, serial, hist, responded, unhandled, codec, popup>>

\* A network change without the inner try/catch: the rejection of initSdk
\* reaches the outer catch.
handleSetNetwork_sdkDone_propagates(s) ==
    /\ s.pc = "sn_sdk"
    /\ Quiet
    /\ \/ /\ walletInstance' = initSdk_resolved(s.mnemonic, s.network)
          /\ ReturnAfter(s, "initSdk:resolved", Ok([success |-> TRUE]))
       \/ /\ walletInstance' = initSdk_rejected
          /\ ReturnAfter(s, "initSdk:rejected",
                         Err(ErrorMessage(SdkFault, "Failed to set network")))
    /\ UNCHANGED <<sessionMnemonic, storage, dispatched, entropy, serial, hist, responded, unhandled, codec, popup>>

\* initSdk resolved or rejected; the network change answers success either way.
handleSetNetwork_sdkDone(s) ==
    /\ s.pc = "sn_sdk"
    /\ Quiet
    /\ \/ /\ walletInstance' = initSdk_resolved(s.mnemonic, s.network)
          /\ ReturnAfter(s, "initSdk:resolved", Ok([success |-> TRUE]))
       \/ /\ walletInstance' = initSdk_rejected
          /\ ReturnAfter(s, "initSdk:rejected", Ok([success |-> TRUE]))
    /\ UNCHANGED <<sessionMnemonic, storage, dispatched, entropy, serial, hist, responded, unhandled, codec, popup>>

\* ---------------------------------------------------------------- listener
\* chrome.runtime.onMessage: the async IIFE runs the handler up to its first
\* await.  Nothing keeps a message from being delivered while earlier
\* requests are suspended.
\* The default branch of the switch.
listener_default(message) ==
    /\ Start([NewRequest("ret", message.type) EXCEPT
                !.response = Err("Unknown message type: " \o message.type)])
    /\ UNCHANGED <<sessionMnemonic, walletInstance, storage, entropy>>

\* Reading the type of null throws in the IIFE, outside every try block: its
\* promise rejects and sendResponse is not reached.
listener_throws ==
    /\ unhandled' = unhandled + 1
    /\ UNCHANGED <<sessionMnemonic, walletInstance, storage, requests, entropy>>

listener(message) ==
    /\ dispatched < MaxRequests
    /\ BagCardinality(requests) < MaxInFlight
    /\ Quiet
    /\ dispatched' = dispatched + 1
    /\ serial' = (serial /\ InFlight = {})
    /\ hist' = IF serial' THEN hist ELSE <<>>
    /\ responded' = responded
    /\ codec' = codec
    /\ IF message = Null
       THEN listener_throws
       ELSE /\ unhandled' = unhandled
            /\ CASE message.type = "GenerateWallet" -> handleGenerateWallet(message.payload)
                 [] message.type = "GetWalletStatus" -> handleGetWalletStatus
                 [] message.type = "UnlockWallet" -> handleUnlockWallet(message.payload)
                 [] message.type = "LockWallet" -> handleLockWallet
                 [] message.type = "GetBalance" -> handleGetBalance
                 [] message.type = "GetNetwork" -> handleGetNetwork
                 [] message.type = "SetNetwork" -> handleSetNetwork(message.payload)
                 [] message.type = "GetAddresses" -> handleGetAddresses
                 [] message.type = "Onboard" -> handleOnboard(message.payload)
                 [] OTHER -> listener_default(message)

\* The requests the history keeps: the mutating ones that got as far as
\* reading their payload (LockWallet has none to read).
Recorded(s) ==
    s.type \in MutatingTypes /\ (s.type = "LockWallet" \/ s.payload /= Undefined)

\* A callback that leaves the request where it is, to be answered again.
sendResponse_again(s) ==
    /\ s.pc = "ret"
    /\ requests' = requests
    /\ hist' = hist
    /\ responded' = responded + 1
    /\ UNCHANGED <<sessionMnemonic, walletInstance, storage, dispatched, entropy, serial, unhandled, codec>>

\* sendResponse(response): the IIFE ends.  While the run is serial the
\* answered request is appended to the history if it is a recorded one.
sendResponse(s) ==
    /\ s.pc = "ret"
    /\ requests' = requests (-) SetToBag({s})
    /\ hist' = IF serial /\ Recorded(s)
               THEN Append(hist, s)
               ELSE hist
    /\ responded' = responded + 1
    /\ UNCHANGED <<sessionMnemonic, walletInstance, storage, dispatched, entropy, serial, unhandled, codec>>

Next ==
    \/ \E message \in Messages \cup Malformed : listener(message) /\ popup' = popup
    \/ \E s \in InFlight : handleGenerateWallet_encrypted(s)
    \/ \E s \in InFlight : handleGenerateWallet_saved(s)
    \/ \E s \in InFlight : handleGetWalletStatus_read(s)
    \/ \E s \in InFlight : handleUnlockWallet_loaded(s)
    \/ \E s \in InFlight : handleUnlockWallet_decrypted(s)
    \/ \E s \in InFlight : handleUnlockWallet_networkLoaded(s)
    \/ \E s \in InFlight : handleUnlockWallet_sdkDone(s)
    \/ \E s \in InFlight : handleGetBalance_done(s)
    \/ \E s \in InFlight : handleOnboard_sent(s)
    \/ \E s \in InFlight : handleOnboard_retried(s)
    \/ \E s \in InFlight : handleGetNetwork_loaded(s)
    \/ \E s \in InFlight : handleSetNetwork_saved(s)
    \/ \E s \in InFlight : handleSetNetwork_sdkDone(s)
    \/ \E s \in InFlight : sendResponse(s) /\ popup' = popup

Spec == Init /\ [][Next]_vars

\* ============================================================= lib/crypto
\* encryptData and decryptData on their own, driven as their tests drive
\* them: a plaintext is encrypted under a password, once or twice, and a
\* blob (as made, or with its ciphertext damaged) or a text that is no blob
\* is decrypted under a password.
Plaintexts == {"seed a", "seed b", "seed c", "seed d", "seed e"}

\* A blob whose ciphertext bytes were replaced.
Corrupted(encryptedJson) ==
    JSONstringify([JSONparse(encryptedJson).value EXCEPT
                     !.cipherText = uint8ArrayToBase64(Garbage)])

\* Texts that are no blob: not JSON, and JSON without one of the fields.
MalformedInputs ==
    {[text |-> "invalid json"],
     JSONstringify([salt |-> uint8ArrayToBase64(1), iv |-> uint8ArrayToBase64(2)]),
     JSONstringify([cipherText |-> uint8ArrayToBase64(Garbage), iv |-> uint8ArrayToBase64(2)]),
     JSONstringify([cipherText |-> uint8ArrayToBase64(Garbage), salt |-> uint8ArrayToBase64(1)]),
     JSONstringify([note |-> "no field"])}

\* A test touches nothing of the service worker.
WorkerIdle ==
    UNCHANGED <<sessionMnemonic, walletInstance, storage, requests, dispatched,
                serial, hist, responded, unhandled, popup>>

\* encrypted = await encryptData(plaintext, password)
test_encrypt(plaintext, password) ==
    /\ codec.pc = "idle"
    /\ codec' = [codec EXCEPT !.pc = "encrypted",
                              !.plaintext = plaintext,
                              !.password = password,
                              !.encrypted1 = encryptData(plaintext, password,
                                                         entropy + 1, entropy + 2)]
    /\ entropy' = entropy + 2
    /\ WorkerIdle

\* encrypted2 = await encryptData(plaintext, password)
test_encryptAgain ==
    /\ codec.pc = "encrypted"
    /\ codec' = [codec EXCEPT !.pc = "twice",
                              !.encrypted2 = encryptData(codec.plaintext, codec.password,
                                                         entropy + 1, entropy + 2)]
    /\ entropy' = entropy + 2
    /\ WorkerIdle

\* The texts a test hands to decryptData once it has blobs.
TestInputs ==
    {codec.encrypted1, Corrupted(codec.encrypted1)}
    \cup (IF codec.pc = "twice" THEN {codec.encrypted2} ELSE {})

\* decrypted = await decryptData(input, password)
test_decrypt(input, password) ==
    /\ codec.pc \in {"encrypted", "twice"}
    /\ codec' = [codec EXCEPT !.pc = "decrypted", !.input = input, !.tried = password,
                              !.decrypted = decryptData(input, password)]
    /\ entropy' = entropy
    /\ WorkerIdle

\* decryptData('invalid json', password)
test_decryptMalformed(input, password) ==
    /\ codec.pc = "idle"
    /\ codec' = [codec EXCEPT !.pc = "decrypted", !.input = input, !.tried = password,
                              !.decrypted = decryptData(input, password)]
    /\ entropy' = entropy
    /\ WorkerIdle

CodecNext ==
    \/ \E plaintext \in Plaintexts, password \in Passwords : test_encrypt(plaintext, password)
    \/ test_encryptAgain
    \/ \E input \in TestInputs, password \in Passwords : test_decrypt(input, password)
    \/ \E input \in MalformedInputs, password \in Passwords :
           test_decryptMalformed(input, password)

CodecSpec == Init /\ [][CodecNext]_vars

\* ================================================================== popup
\* The popup: App routes between its views on the answers of the service
\* worker, which it calls through sendMessage, one call at a time.
\* chrome.runtime.lastError when the callback runs: unset, or set.
NoLastError == [none |-> TRUE]
LastError == [message |-> "Could not establish connection. Receiving end does not exist."]

\* The calls of reject and resolve.
Reject(message) == [state |-> "rejected", value |-> [isError |-> TRUE, message |-> message]]
Resolve(response) == [state |-> "resolved", value |-> response]

\* A client that turns the failure of a handler into a rejection.
sendMessage_callback_throwsFailures(response, lastError) ==
    IF lastError /= NoLastError
    THEN <<Reject(lastError.message)>>
    ELSE IF response = Undefined
         THEN <<Reject("No response received from background service worker")>>
         ELSE IF ~response.success
              THEN <<Reject(response.error)>>
              ELSE <<Resolve(response)>>

\* The callback sendMessage hands to chrome.runtime.sendMessage: the calls of
\* reject and resolve it makes, in order.
sendMessage_callback(response, lastError) ==
    IF lastError /= NoLastError
    THEN <<Reject(lastError.message)>>
    ELSE IF response = Undefined
         THEN <<Reject("No response received from background service worker")>>
         ELSE <<Resolve(response)>>

\* The promise after these calls: the first one settles it.
Settle(calls) ==
    [state |-> calls[1].state, value |-> calls[1].value, settles |-> Len(calls)]

\* sendMessage(msg): the promise is created and the message handed to the
\* transport.
sendMessage(msg) == [popup EXCEPT !.pc = "sent", !.msg = msg, !.promise = Pending]

\* A step of the popup alone.
BackgroundIdle ==
    UNCHANGED <<sessionMnemonic, walletInstance, storage, requests, dispatched, entropy,
                serial, hist, responded, unhandled, codec>>

\* App's effect on mount.
checkWalletStatus ==
    /\ popup.pc = "mount"
    /\ popup' = sendMessage([type |-> "GetWalletStatus", payload |-> Undefined])
    /\ BackgroundIdle

\* CreateWallet.handleSubmit with a password that passes the two checks.
CreateWallet_handleSubmit(password) ==
    /\ popup.pc = "idle" /\ popup.view = "onboarding"
    /\ popup' = sendMessage([type |-> "GenerateWallet", payload |-> [password |-> password]])
    /\ BackgroundIdle

Login_handleSubmit(password) ==
    /\ popup.pc = "idle" /\ popup.view = "login"
    /\ popup' = sendMessage([type |-> "UnlockWallet", payload |-> [password |-> password]])
    /\ BackgroundIdle

Dashboard_handleLock ==
    /\ popup.pc = "idle" /\ popup.view = "dashboard"
    /\ popup' = sendMessage([type |-> "LockWallet", payload |-> Undefined])
    /\ BackgroundIdle

\* The transport delivers the message to the listener of the service worker.
transport_deliver ==
    /\ popup.pc = "sent"
    /\ listener(popup.msg)
    /\ popup' = [popup EXCEPT !.pc = "delivered"]

\* The transport runs the callback without a response, lastError set or not.
transport_fail(lastError) ==
    /\ popup.pc = "sent"
    /\ popup' = [popup EXCEPT !.pc = "settled",
                              !.promise = Settle(sendMessage_callback(Undefined, lastError))]
    /\ BackgroundIdle

\* sendResponse(response) of the service worker runs the callback.
transport_respond(s) ==
    /\ popup.pc = "delivered"
    /\ sendResponse(s)
    /\ popup' = [popup EXCEPT !.pc = "settled",
                              !.promise = Settle(sendMessage_callback(s.response, NoLastError))]

\* The view checkWalletStatus leaves: its try block after the await, and its
\* catch block.
checkWalletStatus_view(promise) ==
    IF promise.state = "resolved"
    THEN IF promise.value.success
         THEN IF ~promise.value.data.initialized THEN "onboarding" ELSE "login"
         ELSE popup.view
    ELSE "onboarding"

checkWalletStatus_settled ==
    /\ popup.pc = "settled" /\ popup.msg.type = "GetWalletStatus"
    /\ popup' = [popup EXCEPT !.pc = "idle", !.view = checkWalletStatus_view(popup.promise)]
    /\ BackgroundIdle

\* The rest of a handleSubmit: onSuccess(), App's setView('dashboard'), when
\* the response says success; otherwise the error is shown.
handleSubmit_view(promise) ==
    IF promise.state = "resolved" /\ promise.value.success THEN "dashboard" ELSE popup.view

CreateWallet_handleSubmit_settled ==
    /\ popup.pc = "settled" /\ popup.msg.type = "GenerateWallet"
    /\ popup' = [popup EXCEPT !.pc = "idle", !.view = handleSubmit_view(popup.promise)]
    /\ BackgroundIdle

Login_handleSubmit_settled ==
    /\ popup.pc = "settled" /\ popup.msg.type = "UnlockWallet"
    /\ popup' = [popup EXCEPT !.pc = "idle", !.view = handleSubmit_view(popup.promise)]
    /\ BackgroundIdle

\* Dashboard.handleLock calls onLock, App's setView('login'), whether the
\* call resolved or rejected.
handleLock_settled ==
    /\ popup.pc = "settled" /\ popup.msg.type = "LockWallet"
    /\ popup' = [popup EXCEPT !.pc = "idle", !.view = "login"]
    /\ BackgroundIdle

\* The popup is closed and opened again while no call is pending: App mounts
\* anew, the service worker keeps its state.
popup_reopened ==
    /\ popup.pc = "idle"
    /\ popup' = PopupOpened
    /\ BackgroundIdle

PopupNext ==
    \/ checkWalletStatus
    \/ \E password \in Passwords : CreateWallet_handleSubmit(password)
    \/ \E password \in Passwords : Login_handleSubmit(password)
    \/ Dashboard_handleLock
    \/ transport_deliver
    \/ \E lastError \in {LastError, NoLastError} : transport_fail(lastError)
    \/ \E s \in InFlight : transport_respond(s)
    \/ checkWalletStatus_settled
    \/ CreateWallet_handleSubmit_settled
    \/ Login_handleSubmit_settled
    \/ handleLock_settled
    \/ popup_reopened
    \/ \E s \in InFlight : handleGetWalletStatus_read(s)
    \/ \E s \in InFlight : handleGenerateWallet_encrypted(s)
    \/ \E s \in InFlight : handleGenerateWallet_saved(s)
    \/ \E s \in InFlight : handleUnlockWallet_loaded(s)
    \/ \E s \in InFlight : handleUnlockWallet_decrypted(s)
    \/ \E s \in InFlight : handleUnlockWallet_networkLoaded(s)
    \/ \E s \in InFlight : handleUnlockWallet_sdkDone(s)

PopupSpec == Init /\ [][PopupNext]_vars

\* ================================================================ claims
\* The password and the plaintext a blob was sealed with.
BlobPassword(blob) == base64ToUint8Array(JSONparse(blob).value.cipherText).key[1]
BlobPlaintext(blob) == base64ToUint8Array(JSONparse(blob).value.cipherText).pt

Last(h) == h[Len(h)]
Returned(type) == {s \in InFlight : s.type = type /\ s.pc = "ret"}
StatusAnswers == {s \in Returned("GetWalletStatus") : s.response.success}
Success == Ok([success |-> TRUE])

IsGenerateOk(e) == e.type = "GenerateWallet" /\ e.response.success
IsUnlockOk(e, password) ==
    e.type = "UnlockWallet" /\ e.response.success /\ e.password = password

\* C1: in every reachable state, under any interleaving of the requests, the
\* handle (walletInstance) is non-null only if the secret (sessionMnemonic)
\* is non-null.
C1_HandleOnlyIfSecret == walletInstance /= NullWallet => sessionMnemonic /= 0

\* C2: at most one mutating transition (GenerateWallet, UnlockWallet,
\* LockWallet, SetNetwork) is in progress at any time.
MutatingInFlight ==
    [s \in {x \in InFlight : x.type \in MutatingTypes} |-> CopiesIn(s, requests)]

C2_OneMutatingTransition == BagCardinality(MutatingInFlight) <= 1

\* C3: in a serial run from an empty store and session, GetWalletStatus
\* reports {initialized: false, locked: true} before any GenerateWallet,
\* {true, true} after a successful GenerateWallet(pw), {true, false} after a
\* successful UnlockWallet(pw) that follows it, and {true, true} again after
\* the LockWallet that follows that.
C3_StatusStateMachine ==
    serial => \A s \in StatusAnswers :
        LET d == s.response.data
        IN  /\ (\A i \in 1..Len(hist) : hist[i].type /= "GenerateWallet")
                   => d = [initialized |-> FALSE, locked |-> TRUE]
            /\ (Len(hist) = 1 /\ IsGenerateOk(hist[1]))
                   => d = [initialized |-> TRUE, locked |-> TRUE]
            /\ (Len(hist) = 2 /\ IsGenerateOk(hist[1])
                              /\ IsUnlockOk(hist[2], hist[1].password))
                   => d = [initialized |-> TRUE, locked |-> FALSE]
            /\ (Len(hist) = 3 /\ IsGenerateOk(hist[1])
                              /\ IsUnlockOk(hist[2], hist[1].password)
                              /\ hist[3].type = "LockWallet")
                   => d = [initialized |-> TRUE, locked |-> TRUE]

C3_Witness ==
    /\ serial
    /\ Len(hist) = 3
    /\ IsGenerateOk(hist[1])
    /\ IsUnlockOk(hist[2], hist[1].password)
    /\ hist[3].type = "LockWallet"
    /\ StatusAnswers /= {}

\* C4: an UnlockWallet of a locked session with a password other than the
\* one the persisted blob was sealed with answers "Incorrect password" and
\* leaves secret and handle null; the status after it reports locked; a
\* later UnlockWallet with the right password (no storage fault) succeeds
\* and the status after that reports unlocked.
WrongPasswordUnlock(e) ==
    /\ e.type = "UnlockWallet"
    /\ e.pre.sessionMnemonic = 0
    /\ e.encrypted /= NoBlob
    /\ e.password /= BlobPassword(e.encrypted)

RightPasswordUnlock(e) ==
    /\ e.type = "UnlockWallet"
    /\ e.encrypted /= NoBlob
    /\ e.password = BlobPassword(e.encrypted)
    /\ "storage:rejected" \notin e.called

C4_WrongPasswordThenRight ==
    serial =>
        /\ \A s \in Returned("UnlockWallet") :
               WrongPasswordUnlock(s) =>
                   /\ s.response = Err("Incorrect password")
                   /\ sessionMnemonic = 0
                   /\ walletInstance = NullWallet
        /\ \A s \in StatusAnswers :
               (hist /= <<>> /\ WrongPasswordUnlock(Last(hist)))
                   => s.response.data.locked = TRUE
        /\ \A s \in Returned("UnlockWallet") :
               (hist /= <<>> /\ WrongPasswordUnlock(Last(hist)) /\ RightPasswordUnlock(s))
                   => /\ s.response = Success
                      /\ sessionMnemonic = BlobPlaintext(s.encrypted)
                      /\ sessionMnemonic /= 0
        /\ \A s \in StatusAnswers :
               (Len(hist) >= 2 /\ WrongPasswordUnlock(hist[Len(hist) - 1])
                               /\ RightPasswordUnlock(Last(hist)))
                   => s.response.data.locked = FALSE

C4_Witness ==
    /\ serial
    /\ Len(hist) >= 2
    /\ WrongPasswordUnlock(hist[Len(hist) - 1])
    /\ hist[Len(hist) - 1].response = Err("Incorrect password")
    /\ RightPasswordUnlock(Last(hist))
    /\ \E s \in StatusAnswers : s.response.data.locked = FALSE

\* C5: when decryption succeeds during UnlockWallet and the construction of
\* the handle fails, the unlock answers success, the secret is held and the
\* handle is null; the status after it reports unlocked and a GetBalance
\* after it answers "Wallet not initialized".
UnlockWithoutHandle(e) ==
    e.type = "UnlockWallet" /\ "initSdk:rejected" \in e.called

C5_UnlockNotRolledBack ==
    serial =>
        /\ \A s \in Returned("UnlockWallet") :
               UnlockWithoutHandle(s) =>
                   /\ s.response = Success
                   /\ sessionMnemonic = s.mnemonic
                   /\ sessionMnemonic /= 0
                   /\ walletInstance = NullWallet
        /\ \A s \in StatusAnswers :
               (hist /= <<>> /\ UnlockWithoutHandle(Last(hist)))
                   => s.response.data.locked = FALSE
        /\ \A s \in Returned("GetBalance") :
               (hist /= <<>> /\ UnlockWithoutHandle(Last(hist)))
                   => s.response = Err("Wallet not initialized")

C5_Witness ==
    /\ serial
    /\ hist /= <<>>
    /\ UnlockWithoutHandle(Last(hist))
    /\ Last(hist).pre.walletInstance /= NullWallet
    /\ \E s \in Returned("GetBalance") : s.response = Err("Wallet not initialized")

\* C6: LockWallet answers success from every state; the step that applies
\* it leaves secret and handle both null, touches nothing persisted, and
\* changes nothing when the session was locked already.
LockDelivered ==
    /\ dispatched' = dispatched + 1
    /\ \E s \in BagToSet(requests') : s.type = "LockWallet"

C6_LockClearsBoth ==
    [][LockDelivered =>
          /\ sessionMnemonic' = 0
          /\ walletInstance' = NullWallet
          /\ storage' = storage
          /\ \A s \in BagToSet(requests') :
                 s.type = "LockWallet" => s.pc = "ret" /\ s.response = Success
          /\ (sessionMnemonic = 0 /\ walletInstance = NullWallet)
                 => (sessionMnemonic' = sessionMnemonic /\ walletInstance' = walletInstance)
      ]_vars

C6_Witness ==
    \E s \in Returned("LockWallet") :
        /\ s.pre.sessionMnemonic /= 0
        /\ s.pre.walletInstance /= NullWallet
        /\ sessionMnemonic = 0
        /\ walletInstance = NullWallet

\* C7: a GenerateWallet delivered when a blob is persisted does not replace
\* the blob.
C7_GenerateOnlyFromUninitialized ==
    serial => \A s \in Returned("GenerateWallet") :
        s.pre.encrypted_wallet /= NoBlob
            => storage.encrypted_wallet = s.pre.encrypted_wallet

\* C8: after every successful GenerateWallet the state is Locked: a blob is
\* persisted and the secret is null.
C8_GenerateLeavesLocked ==
    serial => \A s \in Returned("GenerateWallet") :
        s.response.success => (hasWallet /\ sessionMnemonic = 0)

\* C9: an UnlockWallet that finds no blob persisted answers "No wallet
\* found", calls neither decryptData nor initSdk, and leaves secret and
\* handle as they were.
UnlockOfNoWallet(e) ==
    /\ e.type = "UnlockWallet"
    /\ e.pre.encrypted_wallet = NoBlob
    /\ "storage:rejected" \notin e.called

C9_UnlockNoWallet ==
    serial => \A s \in Returned("UnlockWallet") :
        UnlockOfNoWallet(s) =>
            /\ s.response = Err("No wallet found")
            /\ s.called = {}
            /\ sessionMnemonic = s.pre.sessionMnemonic
            /\ walletInstance = s.pre.walletInstance

C9_Witness ==
    serial /\ \E s \in Returned("UnlockWallet") : UnlockOfNoWallet(s)

\* C10: a SetNetwork whose preference write succeeded and whose handle
\* construction failed answers success, the preference it wrote is the
\* persisted one, and the secret is the one held before (not cleared).
SetNetworkWithoutHandle(e) ==
    e.type = "SetNetwork" /\ "initSdk:rejected" \in e.called

C10_SetNetworkIndependent ==
    serial => \A s \in Returned("SetNetwork") :
        SetNetworkWithoutHandle(s) =>
            /\ s.response = Success
            /\ storage.network = s.network
            /\ sessionMnemonic = s.pre.sessionMnemonic
            /\ sessionMnemonic /= 0

C10_Witness ==
    serial /\ \E s \in Returned("SetNetwork") :
        SetNetworkWithoutHandle(s) /\ s.pre.walletInstance /= NullWallet

\* C11: a SetNetwork(pref) whose write succeeded has persisted pref; if the
\* session held a secret it called initSdk with that secret and pref, using
\* no password, and a handle it built is bound to both; if the session was
\* locked it did not call initSdk and the handle is null.
SetNetworkSaved(e) ==
    e.type = "SetNetwork" /\ e.payload /= Undefined /\ "storage:rejected" \notin e.called

C11_SetNetworkReinit ==
    serial => \A s \in Returned("SetNetwork") :
        SetNetworkSaved(s) =>
            /\ storage.network = s.payload.network
            /\ s.pre.sessionMnemonic /= 0 =>
                   /\ "initSdk" \in s.called
                   /\ s.mnemonic = s.pre.sessionMnemonic
                   /\ s.network = s.payload.network
                   /\ s.password = ""
                   /\ "initSdk:resolved" \in s.called =>
                          walletInstance = WalletCreate(s.pre.sessionMnemonic,
                                                        s.payload.network)
                   /\ sessionMnemonic = s.pre.sessionMnemonic
            /\ s.pre.sessionMnemonic = 0 =>
                   /\ "initSdk" \notin s.called
                   /\ walletInstance = NullWallet
                   /\ sessionMnemonic = 0

C11_Witness ==
    serial /\ \E s \in Returned("SetNetwork") :
        /\ SetNetworkSaved(s)
        /\ s.pre.sessionMnemonic /= 0
        /\ "initSdk:resolved" \in s.called
        /\ s.pre.walletInstance /= NullWallet
        /\ s.pre.walletInstance.network /= s.payload.network

\* C12: GetWalletStatus is a pure read: the step that takes it in, the step
\* in which it reads and the step that sends its response leave secret,
\* handle, blob and network preference unchanged, and a successful response
\* carries initialized = (a blob is persisted) and locked = (the secret is
\* null) as they are in the state it reads, under any interleaving.
StatusSteps(s) ==
    s.type = "GetWalletStatus" /\ CopiesIn(s, requests') /= CopiesIn(s, requests)

C12_StatusPureRead ==
    [][/\ \A s \in InFlight \cup BagToSet(requests') :
              StatusSteps(s) => UNCHANGED <<sessionMnemonic, walletInstance, storage>>
       /\ \A s \in InFlight :
              (StatusSteps(s) /\ s.pc = "st_has") =>
                  \A t \in BagToSet(requests') :
                      (t.type = "GetWalletStatus" /\ t.pc = "ret" /\ t.response.success) =>
                          t.response.data =
                              [initialized |-> storage.encrypted_wallet /= NoBlob,
                               locked |-> sessionMnemonic = 0]
      ]_vars

C12_Witness ==
    /\ ~serial
    /\ \E s \in StatusAnswers :
           s.response.data = [initialized |-> TRUE, locked |-> FALSE]
    /\ \E s \in InFlight : s.type = "UnlockWallet" /\ s.pc = "unl_sdk"

\* The responses the handler of a message type produces.
ErrorsOf(faults) == {Err(f.message) : f \in faults}

HandlerResponses(type) ==
    CASE type = "GenerateWallet" ->
             {Success} \cup ErrorsOf({StorageFault, CodecFault, EntropyFault, TypeError})
      [] type = "GetWalletStatus" ->
             {Ok([initialized |-> i, locked |-> l]) : i \in BOOLEAN, l \in BOOLEAN}
             \cup ErrorsOf({StorageFault})
      [] type = "UnlockWallet" ->
             {Success, Err("No wallet found"), Err("Incorrect password")}
             \cup ErrorsOf({StorageFault})
      [] type = "LockWallet" -> {Success}
      [] type = "GetBalance" ->
             {Ok([onchain |-> on, offchain |-> off]) : on \in {0, 1000}, off \in {0, 500}}
             \cup {Err("Wallet not initialized")}
             \cup {handleGetBalance_catch(e) : e \in SdkFaults}
      [] type = "GetNetwork" ->
             {Ok([network |-> n]) : n \in Networks} \cup ErrorsOf({StorageFault})
      [] type = "SetNetwork" -> {Success} \cup ErrorsOf({StorageFault, TypeError})
      [] type = "GetAddresses" ->
             {Ok([onchain |-> a, offchain |-> b]) :
                 a \in {"onchain-address", ""}, b \in {"offchain-address", ""}}
             \cup {Err("Wallet not initialized")}
      [] type = "Onboard" ->
             {Ok([success |-> TRUE, txid |-> "txid"]), Err("Wallet not initialized"),
              Err("Boarding address not available"), Err("Failed to onboard funds")}
             \cup ErrorsOf({SdkFault, TypeError})
      [] OTHER -> {Err("Unknown message type: " \o type)}

\* C13: sendResponse is called at most once for a delivered message: each
\* call answers a request that was in flight and unanswered and ends it, so
\* the calls made never exceed the messages delivered and not in flight; and
\* the response passed is the one held by that request, one that the handler
\* of its own type produces.
C13_RespondsAtMostOnce ==
    [][/\ responded' + BagCardinality(requests') <= dispatched'
       /\ responded' /= responded =>
              /\ responded' = responded + 1
              /\ \E s \in InFlight :
                     /\ s.pc = "ret"
                     /\ s.response \in HandlerResponses(s.type)
                     /\ requests' = requests (-) SetToBag({s})
      ]_vars

C13_Witness ==
    /\ responded >= 2
    /\ \E s \in InFlight, t \in InFlight :
           s.type /= t.type /\ s.pc = "ret" /\ t.pc /= "ret"

\* C14: every delivered message receives its response once its handler has
\* run to completion: when no request is left in flight, sendResponse has
\* been called as often as messages were delivered.
C14_EveryRequestAnswered == requests = EmptyBag => responded = dispatched

\* C15: no message, the unsupported and the malformed included, throws out
\* of the router: no IIFE promise rejects, every tag is answered by the
\* handler of that tag, and a message with any other tag (or none) is
\* answered {success: false, error}.
KnownTypes == MutatingTypes \cup ReadTypes \cup {"GetAddresses", "Onboard"}

C15_RouterTotal ==
    /\ unhandled = 0
    /\ \A s \in InFlight :
           s.pc = "ret" =>
               /\ s.response \in HandlerResponses(s.type)
               /\ s.type \notin KnownTypes => ~s.response.success

\* The faults of collaborators a request has met.
Rejections ==
    {"storage:rejected", "generateMnemonic:rejected", "encryptData:rejected",
     "decryptData:rejected", "initSdk:rejected", "getBalance:rejected",
     "onchainAddress:rejected", "offchainAddress:rejected",
     "boardingOnchainAddress:rejected", "sendBitcoin:rejected",
     "sendBitcoin:retry:rejected"}

Faults(s) == s.called \cap Rejections

WellFormed(response) ==
    IF response.success
    THEN DOMAIN response = {"success", "data"}
    ELSE DOMAIN response = {"success", "error"} /\ response.error \in STRING

\* C16 as claimed: every request that met a fault of a collaborator answers
\* {success: false, error: <string>}.
C16_FaultsAnswerFailure ==
    \A s \in InFlight :
        (s.pc = "ret" /\ Faults(s) /= {}) =>
            (~s.response.success /\ WellFormed(s.response))

\* The faults a handler recovers from and answers success after: a failed
\* construction of the handle in UnlockWallet and SetNetwork, an address
\* getter that throws in GetAddresses, and a first attempt of Onboard that
\* threw when the retry resolved.
Recovers(s) ==
    CASE s.type \in {"UnlockWallet", "SetNetwork"} -> Faults(s) = {"initSdk:rejected"}
      [] s.type = "GetAddresses" -> TRUE
      [] s.type = "Onboard" ->
             /\ Faults(s) \subseteq {"boardingOnchainAddress:rejected", "sendBitcoin:rejected"}
             /\ "sendBitcoin:retry:resolved" \in s.called
      [] OTHER -> FALSE

FaultsCaught(reqs) ==
    \A s \in BagToSet(reqs) :
        Faults(s) /= {} =>
            /\ s.pc \in {"ret", "ob_retry"}
            /\ s.pc = "ret" =>
                   /\ WellFormed(s.response)
                   /\ s.response.success <=> Recovers(s)

\* C16: a fault of a collaborator is caught inside the handler: the step in
\* which it is raised rejects no IIFE promise and takes the request to its
\* response (or to the retry of Onboard); the response is {success: false,
\* error: <string>}, except that the handler answers success where it
\* recovers (Recovers).
C16_FaultsCaught ==
    [][/\ FaultsCaught(requests')
       /\ unhandled' /= unhandled =>
              (requests' = requests /\ dispatched' = dispatched + 1)
      ]_vars

C16_Witness ==
    /\ \E s \in Returned("UnlockWallet") :
           Faults(s) = {"initSdk:rejected"} /\ s.response = Success
    /\ \E s \in InFlight :
           /\ s.type = "Onboard"
           /\ s.pc = "ob_retry"
           /\ "sendBitcoin:rejected" \in s.called

\* C17: every response a handler returns is well formed: with success true
\* it has data and no error, with success false it has an error string and
\* no data.
C17_EnvelopeWellFormed ==
    \A s \in InFlight : s.pc = "ret" => WellFormed(s.response)

C17_Witness ==
    /\ \E s \in Returned("GetBalance") :
           "getBalance:rejected" \in s.called /\ ~s.response.success
    /\ hist /= <<>>
    /\ Last(hist).response.success

\* The requests a step starts or moves on to.
Stepped == {r \in BagToSet(requests') : CopiesIn(r, requests') > CopiesIn(r, requests)}

\* C18: a GetBalance, GetAddresses or Onboard that finds walletInstance null
\* when it checks it answers "Wallet not initialized", calls no operation
\* of the SDK from there on and leaves secret, handle and persisted records
\* unchanged: at delivery, and in Onboard again before its retry.
C18_NoHandleNoSdk ==
    [][/\ (dispatched' /= dispatched /\ walletInstance = NullWallet) =>
              \A r \in Stepped :
                  r.type \in {"GetBalance", "GetAddresses", "Onboard"} =>
                      /\ r.pc = "ret"
                      /\ r.response = Err("Wallet not initialized")
                      /\ r.called = {}
                      /\ UNCHANGED <<sessionMnemonic, walletInstance, storage>>
       /\ \A s \in InFlight :
              (/\ s.pc = "ob_send"
               /\ CopiesIn(s, requests') < CopiesIn(s, requests)
               /\ walletInstance = NullWallet) =>
                  /\ UNCHANGED <<sessionMnemonic, walletInstance, storage>>
                  /\ \A r \in Stepped :
                         /\ r.pc = "ret"
                         /\ "sendBitcoin:retry" \notin r.called
                         /\ \/ "sendBitcoin:resolved" \in r.called
                            \/ r.response \in {Err("Wallet not initialized"),
                                                Err("Failed to onboard funds")}
      ]_vars

C18_Witness ==
    /\ sessionMnemonic /= 0
    /\ walletInstance = NullWallet
    /\ \E s \in Returned("Onboard") :
           s.response = Err("Wallet not initialized") /\ s.called = {}

\* C19: the secret goes from held to null only in the step that applies a
\* LockWallet: no other step of any request, a fault of the SDK included,
\* clears it.
C19_OnlyLockClearsSecret ==
    [][(sessionMnemonic /= 0 /\ sessionMnemonic' = 0) => LockDelivered]_vars

C19_Witness ==
    /\ serial
    /\ hist /= <<>>
    /\ "initSdk:rejected" \in Last(hist).called
    /\ \E s \in Returned("LockWallet") : s.pre.sessionMnemonic /= 0

\* C21: a GetAddresses delivered while walletInstance is non-null answers
\* success with two strings; each address is "" exactly when its own getter
\* threw or had nothing, whatever the other getter did; the request changes
\* nothing.
C21_AddressesIndependent ==
    [][(dispatched' /= dispatched /\ walletInstance /= NullWallet) =>
           \A r \in Stepped :
               r.type = "GetAddresses" =>
                   /\ r.pc = "ret"
                   /\ r.response.success
                   /\ DOMAIN r.response.data = {"onchain", "offchain"}
                   /\ r.response.data.onchain =
                          (IF "onchainAddress:rejected" \in r.called
                           THEN "" ELSE "onchain-address")
                   /\ r.response.data.offchain =
                          (IF "offchainAddress:rejected" \in r.called
                           THEN "" ELSE "offchain-address")
                   /\ UNCHANGED <<sessionMnemonic, walletInstance, storage>>
      ]_vars

C21_Witness ==
    \E s \in Returned("GetAddresses") :
        s.response = Ok([onchain |-> "", offchain |-> "offchain-address"])

\* C22: no response carries the mnemonic, a password or the handle with its
\* key: the data of a success has only status flags, a network name,
\* addresses, balances or a txid, none of them a password or a drawn seed,
\* and the error of a failure is no password.
PublicFields ==
    {"success", "initialized", "locked", "network", "onchain", "offchain", "txid"}

NoSecretIn(s) ==
    IF s.response.success
    THEN /\ DOMAIN s.response.data \subseteq PublicFields
         /\ \A f \in DOMAIN s.response.data :
                CASE f \in {"success", "initialized", "locked"} ->
                         s.response.data[f] \in BOOLEAN
                  [] f = "network" -> s.response.data[f] \in Networks
                  [] f \in {"onchain", "offchain"} /\ s.type = "GetBalance" ->
                         s.response.data[f] \notin 1..entropy
                  [] OTHER -> s.response.data[f] \notin Passwords
    ELSE s.response.error \notin Passwords

C22_NoSecretInResponse ==
    \A s \in InFlight : s.pc = "ret" => NoSecretIn(s)

C22_Witness ==
    /\ sessionMnemonic /= 0
    /\ walletInstance /= NullWallet
    /\ \E s \in Returned("GetAddresses") :
           s.response = Ok([onchain |-> "onchain-address", offchain |-> "offchain-address"])

\* C23: decrypting a blob that encryptData made of plaintext P under
\* password pw, under pw, returns exactly P.
IntactInput == codec.input /= NoBlob /\ codec.input \in {codec.encrypted1, codec.encrypted2}

C24_WrongPasswordUnified ==
    (codec.pc = "decrypted" /\ IntactInput /\ codec.tried /= codec.password) =>
        /\ ~codec.decrypted.ok
        /\ codec.decrypted.error = DecryptionFailed
        /\ codec.decrypted.error =
               decryptData(Corrupted(codec.input), codec.password).error

C24_Witness ==
    /\ codec.pc = "decrypted"
    /\ codec.input = codec.encrypted1
    /\ codec.tried /= codec.password
    /\ ~codec.decrypted.ok

\* C25: two encryptions of the same plaintext under the same password give
\* different blobs, with different salts and different ivs, and each blob
\* decrypts to the plaintext under that password.
BlobFields(encryptedJson) == JSONparse(encryptedJson).value

C26_MalformedBlobError ==
    (codec.pc = "decrypted" /\ codec.input \in MalformedInputs) =>
        /\ ~codec.decrypted.ok
        /\ codec.decrypted.error = InvalidFormat
        /\ ~codec.decrypted.derived

\* C27: a GetNetwork that answers with a network answers "signet" while no
\* preference was ever written and otherwise the network of the latest
\* SetNetwork whose write succeeded; the persisted preference changes only
\* in the step where a SetNetwork's write succeeds, to that request's network.
RECURSIVE LastWritten(_)
LastWritten(h) ==
    IF h = <<>> THEN "signet"
    ELSE IF Last(h).type = "SetNetwork" /\ Last(h).response.success
         THEN Last(h).network
         ELSE LastWritten(SubSeq(h, 1, Len(h) - 1))

NetworkAnswers == {t \in Stepped : t.type = "GetNetwork" /\ t.pc = "ret" /\ t.response.success}

C27_NetworkPreference ==
    [][/\ storage'.network /= storage.network =>
            \E s \in InFlight :
                /\ s.type = "SetNetwork" /\ s.pc = "sn_save"
                /\ CopiesIn(s, requests') < CopiesIn(s, requests)
                /\ storage'.network = s.network
                /\ \E t \in Stepped : t.type = "SetNetwork" /\ "storage:rejected" \notin t.called
       /\ \A t \in NetworkAnswers :
            /\ t.response = Ok([network |-> t.response.data.network])
            /\ storage.network = "absent" => t.response.data.network = "signet"
            /\ storage.network /= "absent" => t.response.data.network = storage.network
            /\ serial => t.response.data.network = LastWritten(hist)]_vars

C27_Witness ==
    /\ serial
    /\ Len(hist) >= 2
    /\ hist[Len(hist) - 1].type = "SetNetwork" /\ hist[Len(hist) - 1].response.success
    /\ hist[Len(hist) - 1].network = "mainnet"
    /\ Last(hist).type = "SetNetwork" /\ "storage:rejected" \in Last(hist).called
    /\ Last(hist).network = "signet"
    /\ \E s \in Returned("GetNetwork") : s.response = Ok([network |-> "mainnet"])

\* C28: an UnlockWallet that answers success:false has left the secret and
\* the handle as they were when it was delivered, and is not answered
\* "Incorrect password" when its password is the one the blob was made with.
C28_FailedUnlockChangesNothing ==
    \A s \in Returned("UnlockWallet") :
        (serial /\ ~s.response.success) =>
            /\ sessionMnemonic = s.pre.sessionMnemonic
            /\ walletInstance = s.pre.walletInstance
            /\ (s.encrypted /= NoBlob /\ s.password = BlobPassword(s.encrypted)) =>
                   s.response.error /= "Incorrect password"

\* C29: a lock is final against the requests suspended when it was applied.
\* An UnlockWallet or SetNetwork takes the secret before it calls initSdk and
\* only a lock clears the secret (C19), so if the secret is null when such a
\* request installs its handle, a lock was applied and answered while the
\* request was in flight and no later unlock has succeeded: no UnlockWallet
\* or SetNetwork installs a handle while the secret is null.
C29_LockFinal ==
    [][\A t \in Stepped :
          (/\ t.type \in {"UnlockWallet", "SetNetwork"}
           /\ "initSdk:resolved" \in t.called
           /\ walletInstance' /= walletInstance
           /\ walletInstance' /= NullWallet)
          => sessionMnemonic /= 0]_vars

\* C30: the secret goes from null to held only in the step of an
\* UnlockWallet whose decryptData resolved, the password of the request
\* being the one the blob it read was encrypted with, and the secret stored
\* is the plaintext of that blob.
C30_UnlockedOnlyByPassword ==
    [][(sessionMnemonic = 0 /\ sessionMnemonic' /= 0) =>
          \E s \in InFlight :
              /\ s.type = "UnlockWallet" /\ s.pc = "unl_decrypt"
              /\ CopiesIn(s, requests') < CopiesIn(s, requests)
              /\ s.encrypted /= NoBlob
              /\ s.password = BlobPassword(s.encrypted)
              /\ sessionMnemonic' = BlobPlaintext(s.encrypted)]_vars

C30_Witness ==
    /\ serial
    /\ hist /= <<>>
    /\ Last(hist).type = "UnlockWallet" /\ Last(hist).response = Err("Incorrect password")
    /\ \E s \in InFlight :
           /\ s.type = "UnlockWallet" /\ s.pc = "unl_loadnet"
           /\ s.pre.sessionMnemonic = 0
           /\ s.password = BlobPassword(s.encrypted)
           /\ sessionMnemonic = BlobPlaintext(s.encrypted)

\* C31: whenever the secret is held and no request is in flight, the secret
\* is the plaintext of the blob now persisted.
C31_SecretIsPersistedSeed ==
    (sessionMnemonic /= 0 /\ InFlight = {}) =>
        /\ storage.encrypted_wallet /= NoBlob
        /\ sessionMnemonic = BlobPlaintext(storage.encrypted_wallet)

\* C32: whenever the handle is non-null and no mutating request is in
\* flight, the handle is the one Wallet.create gives for the secret now held
\* and the network preference now persisted.  Stated for the sessions that
\* hold a secret, where no lock has come between (that case is C1's).
C32_HandleIsCurrent ==
    (/\ walletInstance /= NullWallet
     /\ sessionMnemonic /= 0
     /\ \A s \in InFlight : s.type \notin MutatingTypes) =>
        walletInstance = WalletCreate(sessionMnemonic, loadNetwork)

\* C33: when the initSdk of an UnlockWallet or SetNetwork has failed the
\* handle is null, whatever it was before; and a GetBalance, GetAddresses or
\* Onboard delivered while the handle is null answers "Wallet not
\* initialized" without calling the SDK.  (A request at its response is in
\* the state its last step left: sendResponse runs before any other step.)
HandleUsers == {"GetBalance", "GetAddresses", "Onboard"}

C33_FailedInitDropsHandle ==
    \A s \in InFlight :
        /\ (s.pc = "ret" /\ s.type \in {"UnlockWallet", "SetNetwork"}
               /\ "initSdk:rejected" \in s.called)
           => walletInstance = NullWallet
        /\ (s.pc = "ret" /\ s.type \in HandleUsers /\ s.called = {}
               /\ walletInstance = NullWallet)
           => s.response = Err("Wallet not initialized")

C33_Witness ==
    /\ serial
    /\ hist /= <<>>
    /\ Last(hist).type = "SetNetwork"
    /\ "initSdk:rejected" \in Last(hist).called
    /\ Last(hist).pre.walletInstance /= NullWallet
    /\ sessionMnemonic /= 0
    /\ walletInstance = NullWallet
    /\ \E s \in Returned("GetBalance") : s.response = Err("Wallet not initialized")

\* C34: an Onboard calls sendBitcoin once in its first attempt and at most
\* once more in its retry; the retry sends only after the first attempt threw
\* and never after a first call that returned; the answer is success with a
\* txid exactly when one of the calls returned; and when the handle is null
\* at the moment the retry block runs, nothing is sent again and the answer
\* is a failure.
FirstAttemptThrew(s) ==
    "sendBitcoin:rejected" \in s.called \/ "boardingOnchainAddress:rejected" \in s.called

SendReturned(s) ==
    "sendBitcoin:resolved" \in s.called \/ "sendBitcoin:retry:resolved" \in s.called

RetrySettled(s) ==
    "sendBitcoin:retry:resolved" \in s.called \/ "sendBitcoin:retry:rejected" \in s.called

OnboardCalls ==
    \A s \in InFlight : s.type = "Onboard" =>
        /\ s.pc = "ob_send" => s.called = {"sendBitcoin"}
        /\ s.pc = "ob_retry" => ("sendBitcoin:retry" \in s.called /\ ~RetrySettled(s))
        /\ "sendBitcoin:retry" \in s.called =>
               (FirstAttemptThrew(s) /\ "sendBitcoin:resolved" \notin s.called)
        /\ RetrySettled(s) => "sendBitcoin:retry" \in s.called
        /\ ("sendBitcoin:resolved" \in s.called \/ "sendBitcoin:rejected" \in s.called)
               => "sendBitcoin" \in s.called
        /\ s.pc = "ret" =>
               /\ s.response.success <=> SendReturned(s)
               /\ s.response.success => s.response = Ok([success |-> TRUE, txid |-> "txid"])
               /\ (walletInstance = NullWallet /\ FirstAttemptThrew(s) /\ ~RetrySettled(s))
                      => ("sendBitcoin:retry" \notin s.called /\ ~s.response.success)

C34_OnboardSendsAtMostTwice ==
    [][/\ OnboardCalls'
       /\ \A t \in Stepped :
             (t.type = "Onboard" /\ t.pc = "ob_retry") =>
                 /\ walletInstance /= NullWallet
                 /\ \A s \in InFlight :
                       CopiesIn(s, requests') < CopiesIn(s, requests) =>
                           (s.type = "Onboard" /\ s.pc = "ob_send")]_vars

C34_Witness ==
    /\ walletInstance = NullWallet
    /\ \E s \in Returned("Onboard") :
           /\ s.called = {"sendBitcoin", "sendBitcoin:rejected"}
           /\ s.response = Err("Wallet not initialized")

\* C35: every call of sendMessage settles its promise by exactly one call of
\* resolve or reject: it rejects when the transport ran the callback with
\* lastError set or without a response, and otherwise resolves with the very
\* response the service worker sent, a {success:false} one included; once
\* settled the promise stays as it is until the next call.
C35_SettlesOnce ==
    [][/\ (popup.pc /= "settled" /\ popup'.pc = "settled") =>
             /\ popup.promise = Pending
             /\ popup'.promise.settles = 1
             /\ popup.pc = "sent" => popup'.promise.state = "rejected"
             /\ popup.pc = "delivered" =>
                    \E s \in InFlight :
                        /\ s.pc = "ret"
                        /\ CopiesIn(s, requests') < CopiesIn(s, requests)
                        /\ popup'.promise = [state |-> "resolved", value |-> s.response,
                                             settles |-> 1]
       /\ (popup.promise /= Pending /\ popup'.promise /= popup.promise) =>
             (popup'.promise = Pending /\ popup'.pc \in {"sent", "mount"})]_vars

C35_Witness ==
    /\ popup.pc = "settled"
    /\ popup.msg.type = "UnlockWallet"
    /\ popup.promise = [state |-> "resolved", value |-> Err("Incorrect password"),
                        settles |-> 1]

\* C36: App's view becomes 'dashboard' only while the session of the
\* service worker is unlocked, that is while GetWalletStatus would report
\* locked:false: after a successful UnlockWallet, and not after a
\* GenerateWallet that left the session locked.
C36_DashboardOnlyUnlocked ==
    [][(popup.view /= "dashboard" /\ popup'.view = "dashboard") =>
          /\ ~handleGetWalletStatus_data.locked
          /\ popup.msg.type = "UnlockWallet"]_vars

\* C37: once the GetWalletStatus call of App's effect has settled and
\* checkWalletStatus has run to its end, the view is 'onboarding' or 'login'.
C37_LeavesLoading ==
    popup.pc = "idle" => popup.view \in {"onboarding", "login", "dashboard"}

\* C20: a GetBalance whose off-chain query failed while the on-chain query
\* succeeded with total 1000 answers success {onchain: 1000, offchain: 0}.
C20_BalanceIndependent ==
    \A s \in Returned("GetBalance") :
        {"onchain:1000", "offchain:rejected"} \subseteq s.called =>
            s.response = Ok([onchain |-> 1000, offchain |-> 0])
====
